---- MODULE Spec2Model ----
(***************************************************************************)
(* The negotiation / payment handshake of the data marketplace demo: the   *)
(* seller's tool handlers (negotiatePrice, createDataPaymentRequest,       *)
(* getLastPaymentToken, provideAccessDataURL / provideAccessToken) over    *)
(* the process-wide maps pendingNegotiations and completedTransactions,    *)
(* the buyer's executePayment, and the external payment SDK they call.     *)
(*                                                                         *)
(* Three revisions of the agent server are in the repository; `rev` says   *)
(* which one a behaviour runs:                                             *)
(*   "server"   src/data-negotiation-agents-server.ts  (prices 10/8 ...)   *)
(*   "part_003" src/unnamed/part_003  (receipt-dereference resolver)       *)
(*   "part_004" src/unnamed/part_004  (prices 300/200 ...)                 *)
(***************************************************************************)
EXTENDS Integers, FiniteSets, Sequences, TLC

VARIABLES
  rev,                       \* the revision of the agent server that runs
  pendingNegotiations,       \* Map<negotiationId, PendingNegotiation>
  completedTransactions,     \* Map<paymentToken, {resourceId, finalPrice}>
  lastProvidedPaymentToken,  \* server revision only
  sdkMinted,                 \* payment SDK: token -> what it was minted for
  sdkPaid,                   \* payment SDK: tokens whose payment was executed
  inflight,                  \* handler invocations suspended at an await
  result,                    \* what the last handler invocation returned
  released,                  \* history: artifacts released per payment token
  lastCounter,               \* history: the session's previous counter-offer
  upstream,                  \* history: the buyer's calls of SDK and peer
  requests,                  \* two overlapping negotiatePrice invocations
  ui,                        \* web UI: the component's state and its timers
  agentRun,                  \* generateText loop of runAgentA and runAgentB
  health                     \* the driver's main() and waitForAgents loop

vars == <<rev, pendingNegotiations, completedTransactions,
          lastProvidedPaymentToken, sdkMinted, sdkPaid, inflight, result,
          released, lastCounter, upstream, requests, ui, agentRun, health>>

----------------------------------------------------------------------------
(* Bounds *)

\* payment tokens the SDK can mint in one behaviour
MaxTokens == 1
\* cap on a session's round counter (negotiationRound++ is unbounded)
MaxRound == 2
\* the same cap where the offer evaluator runs on its own
MaxEvalRound == 3
\* offers 0..MaxOffer are evaluated against the 10/12/13 catalogue
MaxOffer == 14
\* offers 25 * k, k in 0..MaxOfferSteps, against the 300/350/200 one
MaxOfferSteps == 15
\* invocations of each of the buyer's tools in one behaviour
MaxCalls == 2
\* list prices 0..MaxListPrice are shown to the buyer
MaxListPrice == 40
\* payment tokens minted where one session is issued several
MaxSessionTokens == 2

----------------------------------------------------------------------------
(* Values *)

Revisions == {"server", "part_003", "part_004"}

NoToken == 0

\* a number that is absent from a result (undefined in the code)
Null == -1

NegotiationIds == {"s1", "s2"}

UnknownResource == "no_such_resource"

ResourceIds == {"housing_inventory_2024", "spy_ticker_365d", "llm_benchmark_paper"}

\* dataCatalogue of the server revision and of part_003
dataCatalogueServer ==
  [r \in ResourceIds |->
     CASE r = "housing_inventory_2024" -> [listPrice |-> 10, minimumPrice |-> 8]
       [] r = "spy_ticker_365d"        -> [listPrice |-> 12, minimumPrice |-> 10]
       [] r = "llm_benchmark_paper"    -> [listPrice |-> 13, minimumPrice |-> 12]]

\* dataCatalogue of part_004
dataCatalogue004 ==
  [r \in ResourceIds |->
     CASE r = "housing_inventory_2024" -> [listPrice |-> 300, minimumPrice |-> 200]
       [] r = "spy_ticker_365d"        -> [listPrice |-> 350, minimumPrice |-> 250]
       [] r = "llm_benchmark_paper"    -> [listPrice |-> 200, minimumPrice |-> 150]]

\* mutant: the lookup finds an entry whatever the id
dataCatalogue_anyId ==
  [r \in ResourceIds \cup {UnknownResource} |->
     [listPrice |-> 10, minimumPrice |-> 8]]

dataCatalogue == IF rev = "part_004" THEN dataCatalogue004 ELSE dataCatalogueServer

Max(a, b) == IF a >= b THEN a ELSE b

\* Math.floor(x / 2) for an integer x (\div rounds towards minus infinity)
FloorHalf(x) == x \div 2

NoResult ==
  [op |-> "none", resourceId |-> "", price |-> Null,
   paymentToken |-> NoToken, error |-> "none", accepted |-> FALSE,
   finalPrice |-> Null, counterOffer |-> Null, amount |-> Null,
   success |-> FALSE, artifact |-> ""]

ErrResource == "Resource not found"
ErrToken == "Payment token not found or invalid"
ErrCompleted == "This transaction has already been completed"
ErrReceipt == "Invalid receipt or missing payment token in receipt"
ErrUpstream == "upstream failure"

----------------------------------------------------------------------------
(* 4.1 Offer evaluator: the three outcomes of negotiatePrice *)

\* mutant: the accepted price is not clamped to the list price
negotiateOutcome_noClamp(resource, offeredPrice) ==
  IF offeredPrice >= resource.minimumPrice
  THEN [accepted |-> TRUE, finalPrice |-> offeredPrice, counterOffer |-> Null]
  ELSE [accepted |-> FALSE, finalPrice |-> Null,
        counterOffer |-> Max(resource.minimumPrice,
                             FloorHalf(offeredPrice + resource.listPrice))]

\* mutant: an offer equal to the minimum price is countered (> for >=)
negotiateOutcome_strictMin(resource, offeredPrice) ==
  IF offeredPrice >= resource.listPrice
  THEN [accepted |-> TRUE, finalPrice |-> resource.listPrice, counterOffer |-> Null]
  ELSE IF offeredPrice > resource.minimumPrice
  THEN [accepted |-> TRUE, finalPrice |-> offeredPrice, counterOffer |-> Null]
  ELSE [accepted |-> FALSE, finalPrice |-> Null,
        counterOffer |-> Max(resource.minimumPrice,
                             FloorHalf(offeredPrice + resource.listPrice))]

\* mutant: the midpoint is not held at the minimum price (Math.max dropped)
negotiateOutcome_noFloorPrice(resource, offeredPrice) ==
  IF offeredPrice >= resource.listPrice
  THEN [accepted |-> TRUE, finalPrice |-> resource.listPrice, counterOffer |-> Null]
  ELSE IF offeredPrice >= resource.minimumPrice
  THEN [accepted |-> TRUE, finalPrice |-> offeredPrice, counterOffer |-> Null]
  ELSE [accepted |-> FALSE, finalPrice |-> Null,
        counterOffer |-> FloorHalf(offeredPrice + resource.listPrice)]

\* mutant: the sum is not halved
negotiateOutcome_noHalf(resource, offeredPrice) ==
  IF offeredPrice >= resource.listPrice
  THEN [accepted |-> TRUE, finalPrice |-> resource.listPrice, counterOffer |-> Null]
  ELSE IF offeredPrice >= resource.minimumPrice
  THEN [accepted |-> TRUE, finalPrice |-> offeredPrice, counterOffer |-> Null]
  ELSE [accepted |-> FALSE, finalPrice |-> Null,
        counterOffer |-> Max(resource.minimumPrice,
                             offeredPrice + resource.listPrice)]

\* mutant: an offer in a session that is past its first round is turned down
negotiateOutcome_roundLimit(resource, offeredPrice) ==
  IF \E id \in DOMAIN pendingNegotiations :
       pendingNegotiations[id].negotiationRound >= 1
  THEN [accepted |-> FALSE, finalPrice |-> Null, counterOffer |-> Null]
  ELSE IF offeredPrice >= resource.minimumPrice
  THEN [accepted |-> TRUE,
        finalPrice |-> IF offeredPrice >= resource.listPrice
                       THEN resource.listPrice ELSE offeredPrice,
        counterOffer |-> Null]
  ELSE [accepted |-> FALSE, finalPrice |-> Null,
        counterOffer |-> Max(resource.minimumPrice,
                             FloorHalf(offeredPrice + resource.listPrice))]

negotiateOutcome(resource, offeredPrice) ==
  IF offeredPrice >= resource.listPrice
  THEN [accepted |-> TRUE, finalPrice |-> resource.listPrice, counterOffer |-> Null]
  ELSE IF offeredPrice >= resource.minimumPrice
  THEN [accepted |-> TRUE, finalPrice |-> offeredPrice, counterOffer |-> Null]
  ELSE [accepted |-> FALSE, finalPrice |-> Null,
        counterOffer |-> Max(resource.minimumPrice,
                             FloorHalf(offeredPrice + resource.listPrice))]

----------------------------------------------------------------------------
(* The keyed maps (JavaScript Map): functions whose domain is the key set *)

EmptyMap == [k \in {} |-> NoResult]

MapHas(m, k) == k \in DOMAIN m

MapSet(m, k, v) == [x \in DOMAIN m \cup {k} |-> IF x = k THEN v ELSE m[x]]

MapDelete(m, k) == [x \in DOMAIN m \ {k} |-> m[x]]

NoCounter ==
  [resourceId |-> "", price |-> Null, counterOffer |-> Null, repeated |-> FALSE]

\* the buyer's tools that call out: the payment SDK, the peer agent
BuyerTools == {"executePayment", "callDataProvider"}

\* invocations of the tool, calls it made upstream, whether the last threw
NoCalls == [invoked |-> 0, called |-> 0, threw |-> FALSE]

\* two invocations of negotiatePrice that can overlap
Invocations == {1, 2}

NoRequest ==
  [pc |-> "idle", resourceId |-> "", offeredPrice |-> Null, overlapped |-> FALSE]

\* the model's cap on negotiationRound: no further offer at the cap
RoundBelow(negotiationId, cap) ==
  MapHas(pendingNegotiations, negotiationId) =>
    pendingNegotiations[negotiationId].negotiationRound < cap

\* useState initial values of DataNegotiationInterface; negotiationSteps is
\* the length of the list, `tasks` are the timers and fetches that are
\* pending, counterOffer and paymentAmount are history
NoUi ==
  [selectedResource |-> "", isNegotiating |-> FALSE,
   negotiationSteps |-> 0,
   negotiationPhase |-> "browsing", currentOffer |-> Null,
   paymentToken |-> "", accessToken |-> "", tasks |-> {},
   counterOffer |-> Null, paymentAmount |-> Null]

Agents == {"seller", "buyer"}

\* no request is being served by the agent
NoRun == [pc |-> "idle", steps |-> 0]

\* the driver has not been started
NoHealth ==
  [driver |-> "", pc |-> "idle", attempt |-> 0, buyerHealthy |-> FALSE,
   sellerHealthy |-> FALSE, probes |-> 0, delays |-> 0, sent |-> 0]

\* the state after the module is loaded, for one of the revisions `revs`
InitOf(revs) ==
  /\ rev \in revs
  /\ pendingNegotiations = EmptyMap
  /\ completedTransactions = EmptyMap
  /\ lastProvidedPaymentToken = NoToken
  /\ sdkMinted = EmptyMap
  /\ sdkPaid = {}
  /\ inflight = {}
  /\ result = NoResult
  /\ released = EmptyMap
  /\ lastCounter = [id \in NegotiationIds |-> NoCounter]
  /\ upstream = [op \in BuyerTools |-> NoCalls]
  /\ requests = [i \in Invocations |-> NoRequest]
  /\ ui = NoUi
  /\ agentRun = [agent \in Agents |-> NoRun]
  /\ health = NoHealth

----------------------------------------------------------------------------
(* negotiatePrice: no await, so one invocation is one step *)

\* mutant: the session is written anew whatever the map holds
updateNegotiation_overwrite(pn, negotiationId, resourceId, offeredPrice) ==
  MapSet(pn, negotiationId,
         [resource |-> resourceId, currentOffer |-> offeredPrice,
          negotiationRound |-> 1, paymentToken |-> NoToken])

\* mutant: negotiationRound++ is left out
updateNegotiation_noIncrement(pn, negotiationId, resourceId, offeredPrice) ==
  IF ~MapHas(pn, negotiationId)
  THEN MapSet(pn, negotiationId,
              [resource |-> resourceId, currentOffer |-> offeredPrice,
               negotiationRound |-> 1, paymentToken |-> NoToken])
  ELSE [pn EXCEPT ![negotiationId].currentOffer = offeredPrice]

\* the session after an offer: created at round 1, or offer replaced, round + 1
updateNegotiation(pn, negotiationId, resourceId, offeredPrice) ==
  IF ~MapHas(pn, negotiationId)
  THEN MapSet(pn, negotiationId,
              [resource |-> resourceId, currentOffer |-> offeredPrice,
               negotiationRound |-> 1, paymentToken |-> NoToken])
  ELSE [pn EXCEPT ![negotiationId].currentOffer = offeredPrice,
                  ![negotiationId].negotiationRound = @ + 1]

negotiatePrice(resourceId, offeredPrice, negotiationId) ==
  /\ IF resourceId \notin DOMAIN dataCatalogue
     THEN /\ result' = [NoResult EXCEPT !.op = "negotiatePrice",
                          !.resourceId = resourceId, !.price = offeredPrice,
                          !.error = ErrResource]
          /\ UNCHANGED pendingNegotiations
     ELSE LET out == negotiateOutcome(dataCatalogue[resourceId], offeredPrice)
          IN /\ pendingNegotiations' =
                  updateNegotiation(pendingNegotiations, negotiationId,
                                    resourceId, offeredPrice)
             /\ result' = [NoResult EXCEPT !.op = "negotiatePrice",
                             !.resourceId = resourceId, !.price = offeredPrice,
                             !.accepted = out.accepted,
                             !.finalPrice = out.finalPrice,
                             !.counterOffer = out.counterOffer]
  /\ UNCHANGED <<rev, completedTransactions, lastProvidedPaymentToken,
                 sdkMinted, sdkPaid, inflight, released, upstream,
                 ui, agentRun, health>>

----------------------------------------------------------------------------
(* The offer evaluator on its own: every offer of a range, one session.    *)
(* lastCounter keeps the session's latest counter-offer.                   *)

EvalOffers ==
  IF rev = "part_004"
  THEN {25 * k : k \in 0..MaxOfferSteps}
         \cup {149, 151, 199, 201, 249, 251, 299, 301, 349, 351}
  ELSE (0 - 3)..MaxOffer

EvalNegotiate ==
  \E resourceId \in ResourceIds, offeredPrice \in EvalOffers :
    /\ RoundBelow("s1", MaxEvalRound)
    /\ negotiatePrice(resourceId, offeredPrice, "s1")
    /\ lastCounter' =
         IF result'.counterOffer # Null
         THEN [lastCounter EXCEPT !["s1"] =
                 [resourceId |-> resourceId, price |-> offeredPrice,
                  counterOffer |-> result'.counterOffer,
                  repeated |-> lastCounter["s1"].resourceId = resourceId]]
         ELSE lastCounter
    /\ UNCHANGED requests

NextEval == EvalNegotiate

SpecEval == InitOf(Revisions) /\ [][NextEval]_vars

\* the catalogue entry the last negotiatePrice call named
Evaluated == dataCatalogue[result.resourceId]

IsEvaluation == result.op = "negotiatePrice" /\ result.error = "none"

\* C1: an offer at or above the list price is accepted, and the final price
\* is the list price itself, never the higher offer.
C1_AcceptAtListPrice ==
  (IsEvaluation /\ result.price >= Evaluated.listPrice) =>
    /\ result.accepted
    /\ result.finalPrice = Evaluated.listPrice
    /\ result.counterOffer = Null

C1_Witness ==
  IsEvaluation /\ result.price > Evaluated.listPrice /\ result.accepted

\* C2: an offer from the minimum price up to, not including, the list price
\* is accepted at exactly the offer.
C2_AcceptAtOffer ==
  (IsEvaluation /\ result.price >= Evaluated.minimumPrice
                /\ result.price < Evaluated.listPrice) =>
    /\ result.accepted
    /\ result.finalPrice = result.price
    /\ result.counterOffer = Null

C2_Witness ==
  IsEvaluation /\ result.price = Evaluated.minimumPrice
               /\ result.price < Evaluated.listPrice /\ result.accepted

\* C3: an offer below the minimum price is not accepted; the counter-offer is
\* the floored midpoint of offer and list price (the integer m with
\* 2m <= offer + list < 2m + 2), held at the minimum price; it lies between
\* minimum and list price and is not below the offer.
C3_CounterOffer ==
  (IsEvaluation /\ result.price < Evaluated.minimumPrice) =>
    /\ ~result.accepted
    /\ result.finalPrice = Null
    /\ \E m \in result.price..Evaluated.listPrice :
         /\ 2 * m <= result.price + Evaluated.listPrice
         /\ result.price + Evaluated.listPrice < 2 * m + 2
         /\ result.counterOffer =
              (IF m >= Evaluated.minimumPrice THEN m ELSE Evaluated.minimumPrice)
    /\ result.counterOffer >= Evaluated.minimumPrice
    /\ result.counterOffer <= Evaluated.listPrice
    /\ result.counterOffer >= result.price

\* both cases of the maximum happen: the midpoint above the minimum price
C3_Witness ==
  IsEvaluation /\ result.price < Evaluated.minimumPrice
               /\ result.counterOffer > Evaluated.minimumPrice

\* a negotiatePrice call that counters, the session's previous counter-offer
\* having been for the same resource
CounterAfterCounter ==
  /\ result'.op = "negotiatePrice"
  /\ result'.counterOffer # Null
  /\ lastCounter["s1"].resourceId = result'.resourceId

\* C4 as claimed: in a session, a counter-offer is never below the previous
\* counter-offer (for the same resource) and never above the list price,
\* whatever the buyer offers.
C4_CountersNeverDecrease ==
  [][CounterAfterCounter =>
       /\ result'.counterOffer >= lastCounter["s1"].counterOffer
       /\ result'.counterOffer <= dataCatalogue[result'.resourceId].listPrice]_vars

\* C4 amended: a counter-offer is never above the list price, and it is not
\* below the previous counter-offer unless the buyer lowered the offer; with
\* the prices of the 10/8, 12/10, 13/12 catalogue it is never below it.
C4_CountersFollowOffers ==
  [][CounterAfterCounter =>
       /\ result'.counterOffer <= dataCatalogue[result'.resourceId].listPrice
       /\ (result'.price >= lastCounter["s1"].price \/ rev # "part_004") =>
            result'.counterOffer >= lastCounter["s1"].counterOffer]_vars

\* a counter-offer above the minimum price that follows an earlier
\* counter-offer for the same resource in the session
C4_Witness ==
  /\ lastCounter["s1"].repeated
  /\ result.counterOffer = lastCounter["s1"].counterOffer
  /\ result.counterOffer > dataCatalogue[result.resourceId].minimumPrice
  /\ pendingNegotiations["s1"].negotiationRound >= 2

----------------------------------------------------------------------------
(* createDataPaymentRequest: suspended at `await createPaymentRequest`.    *)
(* The SDK remembers what each token was minted for; `inflight` holds the  *)
(* tokens the SDK has minted and whose invocation has not resumed yet.     *)

\* the SDK's createPaymentRequest mints a token never given out before
sdkNextToken == Cardinality(DOMAIN sdkMinted) + 1

\* mutant: the price is handed to the SDK unscaled
minorUnits_unscaled(agreedPrice) == agreedPrice

\* the price in cents handed to the SDK
minorUnits(agreedPrice) == agreedPrice * 100

\* what a suspended createDataPaymentRequest invocation resumes with
Call(paymentToken) ==
  [resourceId |-> sdkMinted[paymentToken].resourceId,
   agreedPrice |-> sdkMinted[paymentToken].agreedPrice,
   negotiationId |-> sdkMinted[paymentToken].negotiationId,
   paymentToken |-> paymentToken]

\* up to the await: the catalogue lookup, then the SDK is called and mints
createDataPaymentRequest_call(resourceId, agreedPrice, negotiationId) ==
  /\ IF resourceId \notin DOMAIN dataCatalogue
     THEN /\ result' = [NoResult EXCEPT !.op = "createDataPaymentRequest",
                          !.resourceId = resourceId, !.error = ErrResource]
          /\ UNCHANGED <<sdkMinted, inflight>>
     ELSE /\ sdkMinted' = MapSet(sdkMinted, sdkNextToken,
               [amount |-> minorUnits(agreedPrice), resourceId |-> resourceId,
                negotiationId |-> negotiationId, agreedPrice |-> agreedPrice])
          /\ inflight' = inflight \cup {sdkNextToken}
          /\ UNCHANGED result
  /\ UNCHANGED <<rev, pendingNegotiations, completedTransactions,
                 lastProvidedPaymentToken, sdkPaid, released, lastCounter,
                 upstream, requests,
                 ui, agentRun, health>>

\* mutant: the token is recorded only on a session that exists, in every
\* revision
recordPaymentToken_noCreate(pn, c) ==
  IF MapHas(pn, c.negotiationId)
  THEN [pn EXCEPT ![c.negotiationId].paymentToken = c.paymentToken]
  ELSE pn

\* "Update negotiation with payment token": part_003 creates the session on
\* its first touch, the server revision and part_004 do not
recordPaymentToken(pn, c) ==
  IF MapHas(pn, c.negotiationId)
  THEN [pn EXCEPT ![c.negotiationId].paymentToken = c.paymentToken]
  ELSE IF rev = "part_003"
  THEN MapSet(pn, c.negotiationId,
              [resource |-> c.resourceId, currentOffer |-> c.agreedPrice,
               negotiationRound |-> 1, paymentToken |-> c.paymentToken])
  ELSE pn

\* after the await, the SDK having returned the token
createDataPaymentRequest_return(paymentToken) ==
  /\ paymentToken \in inflight
  /\ inflight' = inflight \ {paymentToken}
  /\ pendingNegotiations' =
       recordPaymentToken(pendingNegotiations, Call(paymentToken))
  /\ lastProvidedPaymentToken' =
       IF rev = "server" THEN paymentToken ELSE lastProvidedPaymentToken
  /\ result' = [NoResult EXCEPT !.op = "createDataPaymentRequest",
                  !.paymentToken = paymentToken,
                  !.amount = Call(paymentToken).agreedPrice]
  /\ UNCHANGED <<rev, completedTransactions, sdkMinted, sdkPaid, released,
                 lastCounter,
                 upstream, requests,
                 ui, agentRun, health>>

\* mutant: the session is dropped when the SDK throws
createDataPaymentRequest_throw_drop(resourceId, agreedPrice, negotiationId) ==
  /\ resourceId \in DOMAIN dataCatalogue
  /\ result' = [NoResult EXCEPT !.op = "createDataPaymentRequest",
                  !.error = ErrUpstream]
  /\ pendingNegotiations' = MapDelete(pendingNegotiations, negotiationId)
  /\ UNCHANGED <<rev, completedTransactions,
                 lastProvidedPaymentToken, sdkMinted, sdkPaid, inflight,
                 released, lastCounter,
                 upstream, requests,
                 ui, agentRun, health>>

\* the SDK throws instead: the invocation rejects at the await, having read
\* only the catalogue
createDataPaymentRequest_throw(resourceId, agreedPrice, negotiationId) ==
  /\ resourceId \in DOMAIN dataCatalogue
  /\ result' = [NoResult EXCEPT !.op = "createDataPaymentRequest",
                  !.error = ErrUpstream]
  /\ UNCHANGED <<rev, pendingNegotiations, completedTransactions,
                 lastProvidedPaymentToken, sdkMinted, sdkPaid, inflight,
                 released, lastCounter,
                 upstream, requests,
                 ui, agentRun, health>>

----------------------------------------------------------------------------
(* findMatchingResource: keyword matching over the catalogue; it reads no   *)
(* map. A query is modelled by the set of keywords it includes.            *)

matchCategory(query) ==
  IF query \cap {"housing", "real estate"} # {} THEN "housing"
  ELSE IF query \cap {"ticker", "spy", "s&p"} # {} THEN "ticker"
  ELSE IF query \cap {"llm", "language model"} # {} THEN "llm_paper"
  ELSE ""

\* dataCatalogue.find(r => r.category === category)
categoryResource(category) ==
  CASE category = "housing"   -> "housing_inventory_2024"
    [] category = "ticker"    -> "spy_ticker_365d"
    [] category = "llm_paper" -> "llm_benchmark_paper"

findMatchingResource(query) ==
  /\ result' =
       IF matchCategory(query) # ""
       THEN [NoResult EXCEPT !.op = "findMatchingResource",
               !.resourceId = categoryResource(matchCategory(query)),
               !.success = TRUE]
       ELSE [NoResult EXCEPT !.op = "findMatchingResource"]
  /\ UNCHANGED <<rev, pendingNegotiations, completedTransactions,
                 lastProvidedPaymentToken, sdkMinted, sdkPaid, inflight,
                 released, lastCounter,
                 upstream, requests,
                 ui, agentRun, health>>

----------------------------------------------------------------------------
(* getLastPaymentToken (server revision) *)

getLastPaymentToken ==
  /\ rev = "server"
  /\ result' = [NoResult EXCEPT !.op = "getLastPaymentToken",
                  !.paymentToken = lastProvidedPaymentToken]
  /\ UNCHANGED <<rev, pendingNegotiations, completedTransactions,
                 lastProvidedPaymentToken, sdkMinted, sdkPaid, inflight,
                 released, lastCounter,
                 upstream, requests,
                 ui, agentRun, health>>

----------------------------------------------------------------------------
(* 4.3 Receipt-to-artifact resolver *)

\* mutant: the scan does not compare the token (any session matches)
findNegotiation_anySession(pn, paymentToken) == DOMAIN pn

\* mutant: the scan matches the session a token was minted for, whichever
\* token the session carries now
findNegotiation_mintedFor(pn, paymentToken) ==
  {id \in DOMAIN pn : /\ MapHas(sdkMinted, paymentToken)
                      /\ sdkMinted[paymentToken].negotiationId = id}

\* the sessions the scan of pendingNegotiations can stop at: those carrying
\* the token (the loop breaks at the first one in insertion order)
findNegotiation(pn, paymentToken) ==
  {id \in DOMAIN pn : pn[id].paymentToken = paymentToken}

\* mutant: the "Mark as completed" block is left out
markCompleted_omitted(paymentToken, negotiationId) ==
  UNCHANGED <<completedTransactions, pendingNegotiations>>

\* mutant: the session is not deleted after the release
markCompleted_keepSession(paymentToken, negotiationId) ==
  /\ completedTransactions' =
       MapSet(completedTransactions, paymentToken,
              [resourceId |-> pendingNegotiations[negotiationId].resource,
               finalPrice |-> pendingNegotiations[negotiationId].currentOffer])
  /\ UNCHANGED pendingNegotiations

\* "Mark as completed": the Completed Transaction is recorded from the
\* session, and the session is deleted
markCompleted(paymentToken, negotiationId) ==
  /\ completedTransactions' =
       MapSet(completedTransactions, paymentToken,
              [resourceId |-> pendingNegotiations[negotiationId].resource,
               finalPrice |-> pendingNegotiations[negotiationId].currentOffer])
  /\ pendingNegotiations' = MapDelete(pendingNegotiations, negotiationId)

\* artifacts released so far for a payment token
Released(paymentToken) ==
  IF MapHas(released, paymentToken) THEN released[paymentToken] ELSE 0

\* the synchronous part of the resolver, both variants: scan, the two error
\* returns, then the release
resolve(op, paymentToken) ==
  LET found == findNegotiation(pendingNegotiations, paymentToken)
      res == [NoResult EXCEPT !.op = op, !.paymentToken = paymentToken]
  IN IF found = {}
     THEN /\ result' = [res EXCEPT !.error = ErrToken]
          /\ UNCHANGED <<pendingNegotiations, completedTransactions, released>>
     ELSE IF MapHas(completedTransactions, paymentToken)
     THEN /\ result' = [res EXCEPT !.error = ErrCompleted]
          /\ UNCHANGED <<pendingNegotiations, completedTransactions, released>>
     ELSE \E negotiationId \in found :
            /\ markCompleted(paymentToken, negotiationId)
            /\ released' = MapSet(released, paymentToken,
                                   Released(paymentToken) + 1)
            /\ result' = [res EXCEPT !.success = TRUE,
                            !.artifact = pendingNegotiations[negotiationId].resource]

\* Variant A (server revision: provideAccessDataURL, part_004:
\* provideAccessToken): the token and a receipt id are arguments; the receipt
\* id is only echoed
provideAccessDataURL(paymentToken, receiptId) ==
  /\ rev \in {"server", "part_004"}
  /\ resolve("provideAccessDataURL", paymentToken)
  /\ UNCHANGED <<rev, lastProvidedPaymentToken, sdkMinted, sdkPaid, inflight,
                 lastCounter,
                 upstream, requests,
                 ui, agentRun, health>>

\* mutant: Variant B without the check of the receipt's payload
provideAccessDataURL_receipt_unchecked(embeddedToken) ==
  /\ rev = "part_003"
  /\ resolve("provideAccessDataURL", embeddedToken)
  /\ UNCHANGED <<rev, lastProvidedPaymentToken, sdkMinted, sdkPaid, inflight,
                 lastCounter,
                 upstream, requests,
                 ui, agentRun, health>>

\* Variant B (part_003): `await fetch(receiptUrl)` comes before any read of
\* the maps, so the invocation acts when it resumes with the receipt JWT,
\* whose payload embeds a payment token or none
provideAccessDataURL_receipt(embeddedToken) ==
  /\ rev = "part_003"
  /\ IF embeddedToken = NoToken
     THEN /\ result' = [NoResult EXCEPT !.op = "provideAccessDataURL",
                          !.error = ErrReceipt]
          /\ UNCHANGED <<pendingNegotiations, completedTransactions, released>>
     ELSE resolve("provideAccessDataURL", embeddedToken)
  /\ UNCHANGED <<rev, lastProvidedPaymentToken, sdkMinted, sdkPaid, inflight,
                 lastCounter,
                 upstream, requests,
                 ui, agentRun, health>>

----------------------------------------------------------------------------
(* Buyer: executePayment. The SDK executes the payment of a token it has    *)
(* minted and returns a receipt, or throws. The handler touches no map, so *)
(* call, await and return are one step.                                    *)

\* the tool was invoked once more and made `calls` upstream calls
afterCall(tool, calls, threw) ==
  [upstream EXCEPT ![tool] = [invoked |-> @.invoked + 1,
                              called |-> @.called + calls, threw |-> threw]]

\* mutant: a payment that throws is tried once more before the failure is
\* returned
executePayment_retry(paymentToken) ==
  /\ \/ /\ MapHas(sdkMinted, paymentToken)
        /\ sdkPaid' = sdkPaid \cup {paymentToken}
        /\ upstream' = afterCall("executePayment", 1, FALSE)
        /\ result' = [NoResult EXCEPT !.op = "executePayment",
                        !.paymentToken = paymentToken, !.success = TRUE]
     \/ /\ UNCHANGED sdkPaid
        /\ upstream' = afterCall("executePayment", 2, TRUE)
        /\ result' = [NoResult EXCEPT !.op = "executePayment",
                        !.paymentToken = paymentToken, !.error = ErrUpstream]
  /\ UNCHANGED <<rev, pendingNegotiations, completedTransactions,
                 lastProvidedPaymentToken, sdkMinted, inflight, released,
                 lastCounter, requests,
                 ui, agentRun, health>>

executePayment(paymentToken) ==
  /\ \/ /\ MapHas(sdkMinted, paymentToken)
        /\ sdkPaid' = sdkPaid \cup {paymentToken}
        /\ upstream' = afterCall("executePayment", 1, FALSE)
        /\ result' = [NoResult EXCEPT !.op = "executePayment",
                        !.paymentToken = paymentToken, !.success = TRUE]
     \/ /\ UNCHANGED sdkPaid
        /\ upstream' = afterCall("executePayment", 1, TRUE)
        /\ result' = [NoResult EXCEPT !.op = "executePayment",
                        !.paymentToken = paymentToken, !.error = ErrUpstream]
  /\ UNCHANGED <<rev, pendingNegotiations, completedTransactions,
                 lastProvidedPaymentToken, sdkMinted, inflight, released,
                 lastCounter, requests,
                 ui, agentRun, health>>

\* callDataProvider: one call of the peer agent; its response is returned,
\* or { error: true, message } when the call throws
callDataProvider ==
  /\ \/ /\ upstream' = afterCall("callDataProvider", 1, FALSE)
        /\ result' = [NoResult EXCEPT !.op = "callDataProvider",
                        !.success = TRUE]
     \/ /\ upstream' = afterCall("callDataProvider", 1, TRUE)
        /\ result' = [NoResult EXCEPT !.op = "callDataProvider",
                        !.error = ErrUpstream]
  /\ UNCHANGED <<rev, pendingNegotiations, completedTransactions,
                 lastProvidedPaymentToken, sdkMinted, sdkPaid, inflight,
                 released, lastCounter, requests,
                 ui, agentRun, health>>

----------------------------------------------------------------------------
(* The handlers, invoked in any order with any arguments *)

ReceiptIds == {"receipt", "forged"}

\* the model's cap on the tokens the SDK mints in one behaviour
TokensBelow(cap) == Cardinality(DOMAIN sdkMinted) < cap

\* the prices the callers offer and agree on
OfferedPrices == IF rev = "part_004" THEN {150, 320} ELSE {7, 12}

AgreedPrices == IF rev = "part_004" THEN {199, 300} ELSE {9, 10}

\* the queries findMatchingResource is called with
CalledQueries == {{"real estate", "llm"}, {"weather"}}

\* the seller's handlers, invoked in any order: for the sessions `ids`,
\* naming the resources `resources`, with payment tokens 1..tokenCap minted
\* at most and the token tokenCap + 1 never minted
SellerHandlers(ids, resources, tokenCap, roundCap) ==
  \/ \E resourceId \in resources, offeredPrice \in OfferedPrices,
        negotiationId \in ids :
       /\ RoundBelow(negotiationId, roundCap)
       /\ negotiatePrice(resourceId, offeredPrice, negotiationId)
       /\ UNCHANGED <<lastCounter, requests>>
  \/ \E resourceId \in resources, agreedPrice \in AgreedPrices,
        negotiationId \in ids :
       /\ TokensBelow(tokenCap)
       /\ createDataPaymentRequest_call(resourceId, agreedPrice, negotiationId)
  \/ \E paymentToken \in 1..tokenCap :
       createDataPaymentRequest_return(paymentToken)
  \/ \E resourceId \in resources, agreedPrice \in AgreedPrices,
        negotiationId \in ids :
       createDataPaymentRequest_throw(resourceId, agreedPrice, negotiationId)
  \/ getLastPaymentToken
  \/ \E query \in CalledQueries : findMatchingResource(query)
  \/ \E paymentToken \in 1..(tokenCap + 1), receiptId \in ReceiptIds :
       provideAccessDataURL(paymentToken, receiptId)
  \/ \E embeddedToken \in 0..(tokenCap + 1) :
       provideAccessDataURL_receipt(embeddedToken)

\* the model's cap on the invocations of one of the buyer's tools
InvokedBelow(tool, cap) == upstream[tool].invoked < cap

\* the buyer's handlers
BuyerHandlers(tokenCap, callCap) ==
  \/ \E paymentToken \in 1..(tokenCap + 1) :
       /\ InvokedBelow("executePayment", callCap)
       /\ executePayment(paymentToken)
  \/ /\ InvokedBelow("callDataProvider", callCap)
     /\ callDataProvider

CalledResources == {"housing_inventory_2024", UnknownResource}

\* part_004's handlers are those of the server revision without
\* lastProvidedPaymentToken; its prices are covered by SpecEval
Init == InitOf({"server", "part_003"})

\* the seller's agent server on its own; executePayment is left out since it
\* writes nothing the seller's handlers read
Next == SellerHandlers(NegotiationIds, CalledResources, MaxTokens, MaxRound)

Spec == Init /\ [][Next]_vars

\* seller and buyer
NextPay ==
  \/ SellerHandlers(NegotiationIds, CalledResources, MaxTokens, MaxRound)
  \/ BuyerHandlers(MaxTokens, MaxCalls)

SpecPay == Init /\ [][NextPay]_vars

----------------------------------------------------------------------------
(* Release *)

IsResolverResult ==
  result.op = "provideAccessDataURL" /\ result.paymentToken # NoToken

\* C5: for every payment token at most one artifact is released and at most
\* one Completed Transaction is created, and a Completed Transaction, once
\* created, stays as it is.
C5_ReleasedOnce ==
  /\ [](\A t \in DOMAIN released :
          released[t] <= 1 /\ MapHas(completedTransactions, t))
  /\ [][\A t \in DOMAIN completedTransactions :
          /\ MapHas(completedTransactions', t)
          /\ completedTransactions'[t] = completedTransactions[t]]_vars

\* an artifact was released, and the resolver was called again with its token
C5_Witness ==
  /\ IsResolverResult
  /\ ~result.success
  /\ Released(result.paymentToken) = 1

\* C6 as claimed: a resolver call with a token whose artifact was released
\* before fails with the "already completed" error.
C6_SecondCallAlreadyCompleted ==
  (IsResolverResult /\ ~result.success /\ Released(result.paymentToken) >= 1) =>
    result.error = ErrCompleted

\* a resolver step for payment token result'.paymentToken
ResolverStep ==
  /\ result'.op = "provideAccessDataURL"
  /\ result'.paymentToken # NoToken
  /\ result' # result

\* C7: a resolver call with a token that no active session carries returns
\* "Payment token not found or invalid", releases nothing and leaves the
\* sessions and the completed transactions as they are.
C7_UnknownTokenNotFound ==
  [][(/\ ResolverStep
      /\ \A id \in DOMAIN pendingNegotiations :
           pendingNegotiations[id].paymentToken # result'.paymentToken) =>
       /\ result'.error = ErrToken
       /\ ~result'.success
       /\ UNCHANGED <<pendingNegotiations, completedTransactions, released>>]_vars

\* the call was made with a token the SDK never minted, sessions being active
C7_Witness ==
  /\ IsResolverResult
  /\ result.error = ErrToken
  /\ ~MapHas(sdkMinted, result.paymentToken)
  /\ DOMAIN pendingNegotiations # {}

\* C8 as claimed: an artifact is released for a token only after the buyer's
\* payment of that token was executed.
C8_ReleaseOnlyAfterPayment ==
  \A t \in DOMAIN released : released[t] > 0 => t \in sdkPaid

\* C9 as claimed: when createDataPaymentRequest has returned a token for
\* session s, session s is active and carries the token.
C9_TokenRecordedOnSession ==
  (result.op = "createDataPaymentRequest" /\ result.paymentToken # NoToken) =>
    LET s == sdkMinted[result.paymentToken].negotiationId
    IN /\ MapHas(pendingNegotiations, s)
       /\ pendingNegotiations[s].paymentToken = result.paymentToken

\* C10 as claimed: the Completed Transaction records the agreed price, here
\* for the releases whose token was minted for the price at which the
\* evaluator accepted the session's last offer.
C10_FinalPriceIsAgreedPrice ==
  \A t \in DOMAIN completedTransactions :
    LET sold == completedTransactions[t]
        out == negotiateOutcome(dataCatalogue[sold.resourceId], sold.finalPrice)
    IN (/\ sdkMinted[t].resourceId = sold.resourceId
        /\ out.accepted
        /\ out.finalPrice = sdkMinted[t].agreedPrice) =>
         sold.finalPrice = sdkMinted[t].agreedPrice

----------------------------------------------------------------------------
(* Frame of the handlers *)

\* a step in which the resolver releases the artifact for payment token t
ReleaseStep(t) ==
  /\ result'.op = "provideAccessDataURL"
  /\ result'.success
  /\ result'.paymentToken = t
  /\ released' # released

\* C11: a successful resolver call for token t adds the Completed Transaction
\* keyed by t and nothing else, and removes one session, which carried t, and
\* nothing else; every other step removes no session and leaves the completed
\* transactions as they are.
C11_ReleaseFrame ==
  [][IF \E t \in DOMAIN released' : ReleaseStep(t)
     THEN LET t == result'.paymentToken
          IN /\ ~MapHas(completedTransactions, t)
             /\ DOMAIN completedTransactions' = DOMAIN completedTransactions \cup {t}
             /\ \A u \in DOMAIN completedTransactions :
                  completedTransactions'[u] = completedTransactions[u]
             /\ \E s \in DOMAIN pendingNegotiations :
                  /\ pendingNegotiations[s].paymentToken = t
                  /\ pendingNegotiations' = MapDelete(pendingNegotiations, s)
     ELSE /\ DOMAIN pendingNegotiations \subseteq DOMAIN pendingNegotiations'
          /\ completedTransactions' = completedTransactions
          /\ released' = released]_vars

\* an artifact was released while another session was active, and that
\* session is still there
C11_Witness ==
  /\ IsResolverResult
  /\ result.success
  /\ MapHas(completedTransactions, result.paymentToken)
  /\ DOMAIN pendingNegotiations # {}

----------------------------------------------------------------------------
(* Sessions *)

\* a step in which negotiatePrice evaluated an offer for session id
NegotiatedSession(id) ==
  /\ result'.op = "negotiatePrice"
  /\ result'.error = "none"
  /\ pendingNegotiations' # pendingNegotiations
  /\ MapHas(pendingNegotiations', id)
  /\ MapHas(pendingNegotiations, id) =>
       pendingNegotiations'[id] # pendingNegotiations[id]

\* an offer was evaluated for the session id before: it is active or, in the
\* server revision, where only negotiatePrice creates a session, a token
\* minted for it was released
OfferedBefore(id) ==
  \/ MapHas(pendingNegotiations, id)
  \/ /\ rev = "server"
     /\ \E t \in DOMAIN completedTransactions : sdkMinted[t].negotiationId = id

\* C12 as claimed: the first negotiatePrice call for a session id leaves the
\* session at round 1 with the offer; every later call for the id replaces
\* the offer and adds exactly 1 to the round counter.
C12_FirstCreatesLaterIncrement ==
  [][\A id \in NegotiationIds :
       NegotiatedSession(id) =>
         /\ pendingNegotiations'[id].currentOffer = result'.price
         /\ IF OfferedBefore(id)
            THEN /\ MapHas(pendingNegotiations, id)
                 /\ pendingNegotiations'[id].negotiationRound =
                      pendingNegotiations[id].negotiationRound + 1
            ELSE pendingNegotiations'[id].negotiationRound = 1]_vars

\* C12 amended: a negotiatePrice call for a session id that is not in the
\* active map creates the session at round 1 with the offer and no token; a
\* call for an id that is in the map replaces the offer, adds exactly 1 to
\* the round counter and keeps resource and token; no other session changes.
C12_CreateOrIncrement ==
  [][\A id \in NegotiationIds :
       NegotiatedSession(id) =>
         /\ pendingNegotiations'[id] =
              IF MapHas(pendingNegotiations, id)
              THEN [pendingNegotiations[id] EXCEPT
                      !.currentOffer = result'.price,
                      !.negotiationRound = @ + 1]
              ELSE [resource |-> result'.resourceId,
                    currentOffer |-> result'.price,
                    negotiationRound |-> 1, paymentToken |-> NoToken]
         /\ DOMAIN pendingNegotiations' = DOMAIN pendingNegotiations \cup {id}
         /\ \A other \in DOMAIN pendingNegotiations \ {id} :
              pendingNegotiations'[other] = pendingNegotiations[other]]_vars

\* a second offer in a session was countered
C12_Witness ==
  /\ result.op = "negotiatePrice"
  /\ result.counterOffer # Null
  /\ \E id \in DOMAIN pendingNegotiations :
       /\ pendingNegotiations[id].negotiationRound = 2
       /\ pendingNegotiations[id].currentOffer = result.price

----------------------------------------------------------------------------
(* Several payment requests for one session *)

NextIssue ==
  SellerHandlers({"s1"}, {"housing_inventory_2024"}, MaxSessionTokens, MaxRound)

SpecIssue == Init /\ [][NextIssue]_vars

\* the minted tokens with which the resolver's scan finds session s
AcceptedTokens(s) ==
  {t \in DOMAIN sdkMinted : s \in findNegotiation(pendingNegotiations, t)}

\* a step in which createDataPaymentRequest returns payment token t
IssueStep(t) ==
  /\ result'.op = "createDataPaymentRequest"
  /\ result'.paymentToken = t
  /\ result' # result

\* C13: the resolver's scan finds a session with at most one token; a payment
\* request issued for an active session replaces the token the session
\* carries; a resolver call with a token that its session no longer carries
\* returns "Payment token not found or invalid".
C13_OneLiveTokenPerSession ==
  /\ [](\A s \in DOMAIN pendingNegotiations : Cardinality(AcceptedTokens(s)) <= 1)
  /\ [][\A t \in DOMAIN sdkMinted :
          (IssueStep(t) /\ MapHas(pendingNegotiations, sdkMinted[t].negotiationId)) =>
            /\ MapHas(pendingNegotiations', sdkMinted[t].negotiationId)
            /\ pendingNegotiations'[sdkMinted[t].negotiationId].paymentToken = t]_vars
  /\ [][\A t \in DOMAIN sdkMinted :
          (/\ ResolverStep
           /\ result'.paymentToken = t
           /\ MapHas(pendingNegotiations, sdkMinted[t].negotiationId)
           /\ pendingNegotiations[sdkMinted[t].negotiationId].paymentToken # t) =>
            /\ result'.error = ErrToken
            /\ UNCHANGED <<pendingNegotiations, completedTransactions, released>>]_vars

\* the resolver was called with a token that was recorded on its session
\* (part_003 records every returned token) and replaced there by another one
C13_Witness ==
  /\ IsResolverResult
  /\ result.error = ErrToken
  /\ rev = "part_003"
  /\ MapHas(sdkMinted, result.paymentToken)
  /\ result.paymentToken \notin inflight
  /\ ~MapHas(completedTransactions, result.paymentToken)
  /\ LET s == sdkMinted[result.paymentToken].negotiationId
     IN /\ MapHas(pendingNegotiations, s)
        /\ pendingNegotiations[s].paymentToken \notin {NoToken, result.paymentToken}
        /\ MapHas(sdkMinted, pendingNegotiations[s].paymentToken)

\* C14 as claimed: a session id that is not in the active map is brand new
\* (no payment request has returned a token for it; an absent session holds
\* no evaluated offer either) or completed (an artifact was released for a
\* token minted for it).
C14_AbsentIsNewOrCompleted ==
  \A id \in NegotiationIds :
    ~MapHas(pendingNegotiations, id) =>
      \/ \A t \in DOMAIN sdkMinted \ inflight : sdkMinted[t].negotiationId # id
      \/ \E t \in DOMAIN released :
           released[t] > 0 /\ sdkMinted[t].negotiationId = id

----------------------------------------------------------------------------
(* Unknown resource *)

\* C15: negotiatePrice and createDataPaymentRequest called with a resource
\* id that is not in the catalogue return the error result "Resource not
\* found"; such a call changes no session, calls no SDK mint and records no
\* token, so no session and no minted token names an unknown resource.
C15_UnknownResource ==
  /\ []((/\ result.op \in {"negotiatePrice", "createDataPaymentRequest"}
          /\ result.resourceId \notin ResourceIds \cup {""}) =>
           /\ result.error = ErrResource
           /\ result.paymentToken = NoToken
           /\ ~result.accepted)
  /\ [](\A s \in DOMAIN pendingNegotiations :
          pendingNegotiations[s].resource \in ResourceIds)
  /\ [](\A t \in DOMAIN sdkMinted : sdkMinted[t].resourceId \in ResourceIds)
  /\ [][(result'.error = ErrResource /\ result' # result) =>
          UNCHANGED <<pendingNegotiations, completedTransactions, sdkMinted,
                      inflight, lastProvidedPaymentToken, released>>]_vars

\* createDataPaymentRequest was called with an unknown resource id for a
\* session that is active
C15_Witness ==
  /\ result.op = "createDataPaymentRequest"
  /\ result.resourceId = UnknownResource
  /\ result.error = ErrResource
  /\ DOMAIN pendingNegotiations = NegotiationIds

----------------------------------------------------------------------------
(* Amounts *)

\* C16: a createDataPaymentRequest invocation for a known resource has the
\* SDK mint one token, when it is called and not again when it resumes; the
\* amount minted is the agreed price times 100 and the request names the
\* resource; the amount in the handler's result is the agreed price.
C16_MintedAmount ==
  /\ [](\A t \in DOMAIN sdkMinted :
          /\ sdkMinted[t].amount = 100 * sdkMinted[t].agreedPrice
          /\ sdkMinted[t].resourceId \in ResourceIds)
  /\ []((result.op = "createDataPaymentRequest" /\ result.paymentToken # NoToken) =>
           /\ 100 * result.amount = sdkMinted[result.paymentToken].amount
           /\ result.amount \in AgreedPrices)
  /\ [][/\ Cardinality(DOMAIN sdkMinted') <= Cardinality(DOMAIN sdkMinted) + 1
        /\ \A t \in DOMAIN sdkMinted :
             MapHas(sdkMinted', t) /\ sdkMinted'[t] = sdkMinted[t]
        /\ (\E t \in DOMAIN sdkMinted : IssueStep(t)) => sdkMinted' = sdkMinted]_vars

\* a request for 9 returned its token, minted for 900 minor units
C16_Witness ==
  /\ result.op = "createDataPaymentRequest"
  /\ result.paymentToken # NoToken
  /\ result.amount = 9
  /\ sdkMinted[result.paymentToken].amount = 900
  /\ Cardinality(DOMAIN sdkMinted) = 2

----------------------------------------------------------------------------
(* Upstream failures *)

\* the buyer's tools, and the seller's payment requests whose tokens are paid
NextBuyer ==
  \/ \E agreedPrice \in AgreedPrices, negotiationId \in NegotiationIds :
       /\ TokensBelow(MaxTokens)
       /\ createDataPaymentRequest_call("housing_inventory_2024", agreedPrice,
                                        negotiationId)
  \/ \E paymentToken \in 1..MaxTokens :
       createDataPaymentRequest_return(paymentToken)
  \/ BuyerHandlers(MaxTokens, MaxCalls)

SpecBuyer == Init /\ [][NextBuyer]_vars

\* a step in which the buyer's tool was invoked
Invoked(tool) == upstream'[tool].invoked = upstream[tool].invoked + 1

\* C17: an invocation of executePayment calls the SDK's executePayment at
\* most once, an invocation of callDataProvider calls the peer at most once;
\* when the call threw the result is the failure (for executePayment
\* success = false with the error), never a success, and executePayment
\* reports success only for a token whose payment the SDK executed.
C17_NoRetryNoSwallow ==
  /\ [][\A tool \in BuyerTools :
          IF Invoked(tool)
          THEN /\ upstream'[tool].called <= upstream[tool].called + 1
               /\ result'.op = tool
               /\ upstream'[tool].threw =>
                    (~result'.success /\ result'.error = ErrUpstream)
               /\ ~upstream'[tool].threw =>
                    (result'.success /\ result'.error = "none")
          ELSE upstream'[tool] = upstream[tool]]_vars
  /\ [](\A tool \in BuyerTools : upstream[tool].called <= upstream[tool].invoked)
  /\ []((result.op = "executePayment" /\ result.success) =>
           result.paymentToken \in sdkPaid)

\* a payment threw after an earlier invocation had paid, and the failure was
\* returned
C17_Witness ==
  /\ result.op = "executePayment"
  /\ result.error = ErrUpstream
  /\ ~result.success
  /\ upstream["executePayment"] = [invoked |-> 2, called |-> 2, threw |-> TRUE]
  /\ sdkPaid # {}
  /\ upstream["callDataProvider"].threw

----------------------------------------------------------------------------
(* Two overlapping negotiatePrice invocations for session "s1". A request   *)
(* is suspended while runAgentB awaits generateText; the tool's execute has *)
(* no await, so it runs from the catalogue lookup to its return in one     *)
(* step, whichever request it belongs to.                                  *)

\* request i arrives and is suspended before the tool is called
negotiateRequest(i, resourceId, offeredPrice) ==
  /\ requests[i].pc = "idle"
  /\ requests' =
       [j \in Invocations |->
          IF j = i
          THEN [pc |-> "awaiting", resourceId |-> resourceId,
                offeredPrice |-> offeredPrice,
                overlapped |-> \E k \in Invocations : requests[k].pc = "awaiting"]
          ELSE [requests[j] EXCEPT
                  !.overlapped = @ \/ requests[j].pc = "awaiting"]]
  /\ UNCHANGED <<rev, pendingNegotiations, completedTransactions,
                 lastProvidedPaymentToken, sdkMinted, sdkPaid, inflight,
                 result, released, lastCounter, upstream,
                 ui, agentRun, health>>

\* the tool call of request i executes
negotiateExecute(i) ==
  /\ requests[i].pc = "awaiting"
  /\ negotiatePrice(requests[i].resourceId, requests[i].offeredPrice, "s1")
  /\ requests' = [requests EXCEPT ![i].pc = "done"]
  /\ UNCHANGED lastCounter

NextRace ==
  \/ \E i \in Invocations, resourceId \in CalledResources,
        offeredPrice \in OfferedPrices :
       negotiateRequest(i, resourceId, offeredPrice)
  \/ \E i \in Invocations : negotiateExecute(i)

SpecRace == Init /\ [][NextRace]_vars

\* the session after the call of request `first`, then that of `second`
SequentialOutcome(first, second) ==
  [resource |-> first.resourceId, currentOffer |-> second.offeredPrice,
   negotiationRound |-> 2, paymentToken |-> NoToken]

SequentialOutcomes ==
  {SequentialOutcome(requests[1], requests[2]),
   SequentialOutcome(requests[2], requests[1])}

\* the requests whose call has executed and named a known resource
Counted == {i \in Invocations : /\ requests[i].pc = "done"
                                /\ requests[i].resourceId \in ResourceIds}

\* C18 as claimed: when two negotiatePrice invocations for one session id
\* overlap, some order in which their steps can run leaves the session in a
\* state that no sequential order of the two calls produces. The steps of an
\* invocation are the one synchronous execute.
C18_OverlapLosesCall ==
  (\A i \in Invocations : /\ requests[i].pc = "awaiting"
                           /\ requests[i].resourceId \in ResourceIds) =>
    \E order \in {<<1, 2>>, <<2, 1>>} :
      LET r1 == requests[order[1]]
          r2 == requests[order[2]]
          after == updateNegotiation(
                     updateNegotiation(pendingNegotiations, "s1",
                                       r1.resourceId, r1.offeredPrice),
                     "s1", r2.resourceId, r2.offeredPrice)
      IN after["s1"] \notin SequentialOutcomes

\* C18 amended: the calls of overlapping negotiatePrice invocations for one
\* session id take effect one after the other: the round counter is the
\* number of calls that have executed, the offer is that of one of them, and
\* after both the session is what one of the two sequential orders produces.
C18_OverlapIsSequential ==
  IF Counted = {}
  THEN ~MapHas(pendingNegotiations, "s1")
  ELSE /\ MapHas(pendingNegotiations, "s1")
       /\ pendingNegotiations["s1"].negotiationRound = Cardinality(Counted)
       /\ \E i \in Counted :
            pendingNegotiations["s1"].currentOffer = requests[i].offeredPrice
       /\ Counted = Invocations => pendingNegotiations["s1"] \in SequentialOutcomes

\* both calls have executed, with different offers, after the two requests
\* had been suspended at the same time
C18_Witness ==
  /\ Counted = Invocations
  /\ \A i \in Invocations : requests[i].overlapped
  /\ requests[1].offeredPrice # requests[2].offeredPrice
  /\ pendingNegotiations["s1"].currentOffer = requests[1].offeredPrice

----------------------------------------------------------------------------
(* No round limit *)

\* the three fields of the outcome for list price, minimum price and offer
OutcomeFor(listPrice, minimumPrice, offer) ==
  IF offer >= minimumPrice
  THEN <<TRUE, IF offer >= listPrice THEN listPrice ELSE offer, Null>>
  ELSE <<FALSE, Null,
         IF 2 * minimumPrice >= offer + listPrice - 1
         THEN minimumPrice ELSE (offer + listPrice) \div 2>>

\* C19: the outcome of a negotiatePrice call for a known resource is
\* determined by the resource's prices and the offered price, whatever the
\* session's round counter, its earlier offers and its payment token, and
\* the call is never turned down with an error.
C19_OutcomeIgnoresSession ==
  (result.op = "negotiatePrice" /\ result.resourceId \in ResourceIds) =>
    /\ result.error = "none"
    /\ <<result.accepted, result.finalPrice, result.counterOffer>> =
         OutcomeFor(Evaluated.listPrice, Evaluated.minimumPrice, result.price)

\* an offer evaluated in a session that is past its first round, made a
\* different offer before and has a payment token issued
C19_Witness ==
  /\ IsEvaluation
  /\ MapHas(pendingNegotiations, "s1")
  /\ pendingNegotiations["s1"].negotiationRound >= 2
  /\ pendingNegotiations["s1"].paymentToken # NoToken
  /\ pendingNegotiations["s1"].currentOffer = result.price
  /\ result.counterOffer # Null

----------------------------------------------------------------------------
(* 4.4 The buyer's opening offer (startNegotiation of the web UI) *)

\* mutant: the opening offer is 85% of the list price, floored
openingOffer_85(listPrice, budget) ==
  IF listPrice > budget THEN (listPrice * 85) \div 100 ELSE listPrice

\* Math.floor(resource.listPrice * 0.8) when the list price is over budget,
\* the list price otherwise
openingOffer(listPrice, budget) ==
  IF listPrice > budget THEN (listPrice * 8) \div 10 ELSE listPrice

\* the list prices of the UI's catalogue and the small ones
ListPrices == {200, 300, 350} \cup 0..MaxListPrice

\* RESEARCHER_BUDGET of the UI (275), of the agent server (10), and one more
Budgets == {10, 25, 275}

\* the result keeps the list price (price), the budget (amount) and the
\* opening offer (counterOffer)
startNegotiation(listPrice, budget) ==
  /\ result' = [NoResult EXCEPT !.op = "startNegotiation",
                  !.price = listPrice, !.amount = budget,
                  !.counterOffer = openingOffer(listPrice, budget)]
  /\ UNCHANGED <<rev, pendingNegotiations, completedTransactions,
                 lastProvidedPaymentToken, sdkMinted, sdkPaid, inflight,
                 released, lastCounter, upstream, requests,
                 ui, agentRun, health>>

NextOffer ==
  \E listPrice \in ListPrices, budget \in Budgets :
    startNegotiation(listPrice, budget)

SpecOffer == Init /\ [][NextOffer]_vars

IsOpening == result.op = "startNegotiation"

----------------------------------------------------------------------------
(* Web UI: DataNegotiationInterface.  Every handler is a closure of the
   render in which the card was clicked, so it reads the selectedResource of
   that render (task.selectedResource), not the one set by the click.  The
   flow is run with the prices and budget of the UI (rev = "part_004":
   300/350/200 and 275) and with those of the agent server (10/12/13, 10). *)

RESEARCHER_BUDGET == IF rev = "part_004" THEN 275 ELSE 10

\* a pending timer or fetch: the callback, its arguments, its closure
Task(fn, resourceId, amount, selectedResource) ==
  [fn |-> fn, resourceId |-> resourceId, amount |-> amount,
   selectedResource |-> selectedResource]

\* `task` is replaced by what it schedules
Then(task, scheduled) == (ui.tasks \ {task}) \cup scheduled

UiUnchanged ==
  UNCHANGED <<rev, pendingNegotiations, completedTransactions,
              lastProvidedPaymentToken, sdkMinted, sdkPaid, inflight, result,
              released, lastCounter, upstream, requests, agentRun, health>>

\* onClick of a resource card, startNegotiation up to `await fetch`
startNegotiation_click(resourceId) ==
  /\ ~ui.isNegotiating
  /\ ui' = [ui EXCEPT !.selectedResource = resourceId,
                      !.isNegotiating = TRUE,
                      !.negotiationPhase = "negotiating",
                      !.negotiationSteps = 1,
                      !.tasks = @ \cup {Task("startNegotiation", resourceId,
                                             Null, ui.selectedResource)}]
  /\ UiUnchanged

\* startNegotiation after the fetch: over budget the opening offer is
\* scheduled, within budget the list price is only shown
startNegotiation_fetched(task, ok) ==
  /\ task \in ui.tasks
  /\ task.fn = "startNegotiation"
  /\ LET listPrice == dataCatalogue[task.resourceId].listPrice
     IN ui' =
          IF ~ok
          THEN [ui EXCEPT !.isNegotiating = FALSE, !.tasks = Then(task, {})]
          ELSE IF listPrice > RESEARCHER_BUDGET
          THEN [ui EXCEPT !.negotiationSteps = @ + 2, !.tasks =
                  Then(task, {Task("makeOffer", task.resourceId,
                                   openingOffer(listPrice, RESEARCHER_BUDGET),
                                   task.selectedResource)})]
          ELSE [ui EXCEPT !.negotiationSteps = @ + 2,
                          !.currentOffer = listPrice,
                          !.tasks = Then(task, {})]
  /\ UiUnchanged

\* makeOffer up to the timer of the simulated provider
makeOffer(task) ==
  /\ task \in ui.tasks
  /\ task.fn = "makeOffer"
  /\ ui' =
       IF task.selectedResource = ""
       THEN [ui EXCEPT !.tasks = Then(task, {})]
       ELSE [ui EXCEPT !.currentOffer = task.amount,
                       !.negotiationSteps = @ + 1,
                       !.tasks = Then(task, {[task EXCEPT !.fn = "response"]})]
  /\ UiUnchanged

\* mutant: every counter-offer is accepted
autoAccept_always(counterOffer) == TRUE

\* "Auto-accept if within budget"
autoAccept(counterOffer) == counterOffer <= RESEARCHER_BUDGET

\* makeOffer's timer, the simulated provider: accept at or above the
\* minimum price, otherwise counter
makeOffer_response(task) ==
  /\ task \in ui.tasks
  /\ task.fn = "response"
  /\ LET resource == dataCatalogue[task.selectedResource]
         counterOffer ==
           Max(resource.minimumPrice,
               FloorHalf(task.amount + resource.listPrice))
     IN ui' =
          IF task.amount >= resource.minimumPrice
          THEN [ui EXCEPT !.negotiationSteps = @ + 1, !.tasks =
                  Then(task, {[task EXCEPT !.fn = "requestPayment"]})]
          ELSE [ui EXCEPT
                  !.negotiationSteps = @ + 1,
                  !.currentOffer = counterOffer,
                  !.counterOffer = counterOffer,
                  !.tasks =
                    Then(task,
                         IF autoAccept(counterOffer)
                         THEN {[task EXCEPT !.fn = "acceptOffer",
                                            !.amount = counterOffer]}
                         ELSE {})]
  /\ UiUnchanged

acceptOffer(task) ==
  /\ task \in ui.tasks
  /\ task.fn = "acceptOffer"
  /\ ui' = [ui EXCEPT !.negotiationSteps = @ + 1, !.tasks =
              Then(task, {[task EXCEPT !.fn = "requestPayment"]})]
  /\ UiUnchanged

requestPayment(task) ==
  /\ task \in ui.tasks
  /\ task.fn = "requestPayment"
  /\ ui' = [ui EXCEPT !.negotiationPhase = "payment",
                      !.paymentToken = "pay",
                      !.paymentAmount = task.amount,
                      !.negotiationSteps = @ + 1,
                      !.tasks =
                        Then(task, {[task EXCEPT !.fn = "executePayment"]})]
  /\ UiUnchanged

\* executePayment of the UI up to `await fetch`
executePayment_timer(task) ==
  /\ task \in ui.tasks
  /\ task.fn = "executePayment"
  /\ ui' = [ui EXCEPT !.tasks = Then(task, {[task EXCEPT !.fn = "pay"]})]
  /\ UiUnchanged

\* executePayment after /api/negotiation/pay answered
executePayment_fetched(task, ok) ==
  /\ task \in ui.tasks
  /\ task.fn = "pay"
  /\ ui' =
       IF ok
       THEN [ui EXCEPT !.accessToken =
                         IF task.selectedResource = "" THEN "access_null"
                         ELSE task.selectedResource,
                       !.negotiationPhase = "complete",
                       !.negotiationSteps = @ + 2,
                       !.tasks = Then(task, {})]
       ELSE [ui EXCEPT !.tasks = Then(task, {})]
  /\ UiUnchanged

\* the button is rendered in the 'complete' phase only
resetNegotiation ==
  /\ ui.negotiationPhase = "complete"
  /\ ui' = [NoUi EXCEPT !.tasks = ui.tasks]
  /\ UiUnchanged

NextUi ==
  \/ \E resourceId \in ResourceIds : startNegotiation_click(resourceId)
  \/ \E task \in ui.tasks, ok \in BOOLEAN : startNegotiation_fetched(task, ok)
  \/ \E task \in ui.tasks : makeOffer(task)
  \/ \E task \in ui.tasks : makeOffer_response(task)
  \/ \E task \in ui.tasks : acceptOffer(task)
  \/ \E task \in ui.tasks : requestPayment(task)
  \/ \E task \in ui.tasks : executePayment_timer(task)
  \/ \E task \in ui.tasks, ok \in BOOLEAN : executePayment_fetched(task, ok)
  \/ resetNegotiation

SpecUi == InitOf({"server", "part_004"}) /\ [][NextUi]_vars

UiProgress ==
  \E task \in ui.tasks :
    \/ \E ok \in BOOLEAN : startNegotiation_fetched(task, ok)
    \/ makeOffer(task)
    \/ makeOffer_response(task)
    \/ acceptOffer(task)
    \/ requestPayment(task)
    \/ executePayment_timer(task)
    \/ \E ok \in BOOLEAN : executePayment_fetched(task, ok)

\* every timer fires and every fetch is answered
SpecUiFair == SpecUi /\ WF_vars(UiProgress)

\* /api/negotiation/start answered and the price on the table is affordable
StartedWithinBudget ==
  /\ ui.isNegotiating
  /\ ui.negotiationPhase = "negotiating"
  /\ \A task \in ui.tasks : task.fn # "startNegotiation"
  /\ \/ dataCatalogue[ui.selectedResource].listPrice <= RESEARCHER_BUDGET
     \/ ui.counterOffer # Null /\ ui.counterOffer <= RESEARCHER_BUDGET

\* /api/negotiation/pay failed: the flow stays in the 'payment' phase
PaymentFailed == ui.negotiationPhase = "payment" /\ ui.tasks = {}

\* C22: a started negotiation whose list price or counter-offer is within
\* budget eventually reaches the 'complete' phase with an access token,
\* unless the payment endpoint failed.
C22_WithinBudgetCompletes ==
  StartedWithinBudget ~>
    \/ ui.negotiationPhase = "complete" /\ ui.accessToken # ""
    \/ PaymentFailed

\* C27: every amount for which payment is requested is at most the budget.
C27_PaymentWithinBudget ==
  ui.paymentAmount # Null => ui.paymentAmount <= RESEARCHER_BUDGET


----------------------------------------------------------------------------
(* runAgentA and runAgentB: one generateText call per request.  A generation
   step either ends the run with text or calls tools; after the tools have
   returned the loop goes on unless stopWhen holds. *)

\* stopWhen: stepCountIs(8) for the seller, stepCountIs(12) for the buyer
stepCountIs(agent) == IF agent = "seller" THEN 8 ELSE 12

\* mutant: the loop stops one step later
stopWhen_late(agent, steps) == steps = stepCountIs(agent) + 1

stopWhen(agent, steps) == steps = stepCountIs(agent)

RunUnchanged ==
  UNCHANGED <<rev, pendingNegotiations, completedTransactions,
              lastProvidedPaymentToken, sdkMinted, sdkPaid, inflight, result,
              released, lastCounter, upstream, requests, ui, health>>

\* a /chat request reaches the agent
runAgent(agent) ==
  /\ agentRun[agent].pc \in {"idle", "done"}
  /\ agentRun' = [agentRun EXCEPT ![agent] = [pc |-> "generating", steps |-> 0]]
  /\ RunUnchanged

\* one generation step: the model answers with tool calls or with text
generateStep(agent, toolCalls) ==
  /\ agentRun[agent].pc = "generating"
  /\ agentRun' = [agentRun EXCEPT ![agent] =
       [pc |-> IF toolCalls THEN "tools" ELSE "done", steps |-> @.steps + 1]]
  /\ RunUnchanged

\* the tools of the step have returned
toolsReturn(agent) ==
  /\ agentRun[agent].pc = "tools"
  /\ agentRun' = [agentRun EXCEPT ![agent].pc =
       IF stopWhen(agent, agentRun[agent].steps) THEN "done" ELSE "generating"]
  /\ RunUnchanged

RunProgress ==
  \E agent \in Agents :
    \/ \E toolCalls \in BOOLEAN : generateStep(agent, toolCalls)
    \/ toolsReturn(agent)

NextRun == (\E agent \in Agents : runAgent(agent)) \/ RunProgress

\* every model call and every tool call returns
SpecRun ==
  /\ InitOf(Revisions) /\ [][NextRun]_vars
  /\ \A agent \in Agents :
       /\ WF_vars(\E toolCalls \in BOOLEAN : generateStep(agent, toolCalls))
       /\ WF_vars(toolsReturn(agent))

\* C23: a seller run takes at most 8 generation steps and a buyer run at
\* most 12, and every run that was started ends with a reply.
C23_StepBudget ==
  /\ [](agentRun["seller"].steps <= 8 /\ agentRun["buyer"].steps <= 12)
  /\ \A agent \in Agents :
       (agentRun[agent].pc \in {"generating", "tools"})
         ~> (agentRun[agent].pc = "done")

\* a seller run was stopped by its step budget while the buyer runs
C23_Witness ==
  /\ agentRun["seller"] = [pc |-> "done", steps |-> 8]
  /\ agentRun["buyer"].pc = "tools"
  /\ agentRun["buyer"].steps = 12


----------------------------------------------------------------------------
(* createDataPaymentRequest called with any agreedPrice: the tool's input
   schema accepts every number, and only the prompt of runAgentB orders the
   call after an agreement *)

NextMint ==
  \/ \E offeredPrice \in OfferedPrices :
       /\ RoundBelow("s1", MaxRound)
       /\ negotiatePrice("housing_inventory_2024", offeredPrice, "s1")
       /\ UNCHANGED <<lastCounter, requests>>
  \/ \E agreedPrice \in 0..MaxOffer :
       /\ TokensBelow(MaxSessionTokens)
       /\ createDataPaymentRequest_call("housing_inventory_2024", agreedPrice,
                                        "s1")
  \/ \E paymentToken \in 1..MaxSessionTokens :
       createDataPaymentRequest_return(paymentToken)

SpecMint == Init /\ [][NextMint]_vars

\* a step in which the SDK mints payment token t
MintStep(t) == ~MapHas(sdkMinted, t) /\ MapHas(sdkMinted', t)

\* C24: a payment request is minted at a price between the resource's
\* minimum and list price, for a session that an offer has created (the
\* session is active, or was deleted by a release).
C24_MintAfterAgreement ==
  [][\A t \in 1..(MaxSessionTokens + 1) :
       MintStep(t) =>
         LET c == sdkMinted'[t]
             resource == dataCatalogue[c.resourceId]
         IN /\ resource.minimumPrice <= c.agreedPrice
            /\ c.agreedPrice <= resource.listPrice
            /\ \/ MapHas(pendingNegotiations, c.negotiationId)
               \/ completedTransactions # EmptyMap]_vars


----------------------------------------------------------------------------
(* One session, offers and payment requests on two resources *)

NextTwo ==
  SellerHandlers({"s1"}, {"housing_inventory_2024", "spy_ticker_365d"},
                 MaxTokens, MaxRound)

SpecTwo == Init /\ [][NextTwo]_vars

\* C25: the Completed Transaction of a payment token, and the artifact
\* released for it, name the resource the token was minted for.
C25_ReleasedResourceIsMinted ==
  /\ \A t \in DOMAIN completedTransactions :
       completedTransactions[t].resourceId = sdkMinted[t].resourceId
  /\ (IsResolverResult /\ result.success) =>
       result.artifact = sdkMinted[result.paymentToken].resourceId


----------------------------------------------------------------------------
(* Two buyers, one session each, served by the one server process (server
   revision): the receipt flow of runAgentB's prompt is getLastPaymentToken
   followed by provideAccessDataURL with the token it returned *)

NextLast ==
  \/ \E negotiationId \in NegotiationIds :
       /\ RoundBelow(negotiationId, 1)
       /\ negotiatePrice("housing_inventory_2024", 12, negotiationId)
       /\ UNCHANGED <<lastCounter, requests>>
  \/ \E negotiationId \in NegotiationIds :
       /\ TokensBelow(MaxSessionTokens)
       /\ createDataPaymentRequest_call("housing_inventory_2024", 10,
                                        negotiationId)
  \/ \E paymentToken \in 1..MaxSessionTokens :
       createDataPaymentRequest_return(paymentToken)
  \/ getLastPaymentToken
  \/ \E paymentToken \in 1..MaxSessionTokens :
       provideAccessDataURL(paymentToken, "receipt")
  \/ \E paymentToken \in 1..MaxSessionTokens :
       /\ InvokedBelow("executePayment", MaxCalls)
       /\ executePayment(paymentToken)

SpecLast == InitOf({"server"}) /\ [][NextLast]_vars

\* the resolver is called with the token getLastPaymentToken just returned
LastTokenResolved ==
  /\ result.op = "getLastPaymentToken"
  /\ ResolverStep
  /\ result'.paymentToken = result.paymentToken

\* C26: when one payment token has been paid, so that the receipt the buyer
\* presents is the receipt of that token, getLastPaymentToken followed by
\* provideAccessDataURL releases the session that token was minted for.
C26_ReceiptFlowReleasesPaidSession ==
  [][\A p \in DOMAIN sdkMinted :
       (sdkPaid = {p} /\ LastTokenResolved /\ result'.success) =>
         /\ result'.paymentToken = p
         /\ ~MapHas(pendingNegotiations', sdkMinted[p].negotiationId)]_vars


----------------------------------------------------------------------------
(* createDataPaymentRequest when the mint fails *)

\* a step in which createDataPaymentRequest rejects at its await
MintFailedStep ==
  /\ result'.op = "createDataPaymentRequest"
  /\ result'.error = ErrUpstream
  /\ result' # result

\* payment token t has been returned by the SDK to the handler
Returned(t) == MapHas(sdkMinted, t) /\ t \notin inflight

\* C28: a createDataPaymentRequest call whose mint fails leaves the sessions
\* (their payment tokens included), the completed transactions and the
\* last-provided token as they were; a session or the last-provided token
\* holds only a token that the mint has returned.
C28_MintFailureRecordsNothing ==
  /\ [][MintFailedStep =>
          UNCHANGED <<pendingNegotiations, completedTransactions,
                      lastProvidedPaymentToken, released>>]_vars
  /\ [](\A s \in DOMAIN pendingNegotiations :
          pendingNegotiations[s].paymentToken # NoToken =>
            Returned(pendingNegotiations[s].paymentToken))
  /\ [](lastProvidedPaymentToken # NoToken =>
          Returned(lastProvidedPaymentToken))

\* the mint failed for a session that carries the token of an earlier request
C28_Witness ==
  /\ result.op = "createDataPaymentRequest"
  /\ result.error = ErrUpstream
  /\ MapHas(pendingNegotiations, "s1")
  /\ pendingNegotiations["s1"].paymentToken # NoToken


----------------------------------------------------------------------------
(* The two variants of the resolver *)

\* a step of the resolver, either variant, a receipt without token included
AnyResolverStep ==
  /\ result'.op = "provideAccessDataURL"
  /\ result' # result

\* the sessions that carry payment token t
Carriers(t) ==
  {s \in DOMAIN pendingNegotiations : pendingNegotiations[s].paymentToken = t}

\* C29: in either variant a resolver call that resolves payment token t
\* (an argument in Variant A, embedded in the receipt in Variant B) has the
\* outcome and the state changes that the state and t determine: not found
\* when no session carries t, already completed when t has a Completed
\* Transaction, otherwise the release of the carrying session; a receipt
\* that embeds no token yields the receipt error and changes nothing.
C29_VariantsAgree ==
  [][AnyResolverStep =>
       LET t == result'.paymentToken
           frame == UNCHANGED <<pendingNegotiations, completedTransactions,
                                released>>
       IN IF t = NoToken
          THEN result'.error = ErrReceipt /\ ~result'.success /\ frame
          ELSE IF Carriers(t) = {}
          THEN result'.error = ErrToken /\ ~result'.success /\ frame
          ELSE IF t \in DOMAIN completedTransactions
          THEN result'.error = ErrCompleted /\ ~result'.success /\ frame
          ELSE \E s \in Carriers(t) :
                 /\ result'.success
                 /\ result'.error = "none"
                 /\ result'.artifact = pendingNegotiations[s].resource
                 /\ DOMAIN pendingNegotiations' = DOMAIN pendingNegotiations \ {s}
                 /\ \A o \in DOMAIN pendingNegotiations' :
                      pendingNegotiations'[o] = pendingNegotiations[o]
                 /\ DOMAIN completedTransactions' =
                      DOMAIN completedTransactions \cup {t}
                 /\ completedTransactions'[t] =
                      [resourceId |-> pendingNegotiations[s].resource,
                       finalPrice |-> pendingNegotiations[s].currentOffer]
                 /\ \A o \in DOMAIN completedTransactions :
                      completedTransactions'[o] = completedTransactions[o]]_vars

\* Variant B released an artifact for the token embedded in a receipt
C29_Witness ==
  /\ rev = "part_003"
  /\ IsResolverResult
  /\ result.success
  /\ MapHas(completedTransactions, result.paymentToken)


----------------------------------------------------------------------------
(* The drivers (part_000 and part_013): main() awaits waitForAgents(), which
   probes the buyer's port and then the seller's, each probe ending after
   its fetch answered or its 2 s timeout *)

Drivers == {"part_000", "part_013"}

\* CONFIG.HEALTH_CHECK.maxRetries, and the default of part_013's parameter
maxRetries == 10

HealthUnchanged ==
  UNCHANGED <<rev, pendingNegotiations, completedTransactions,
              lastProvidedPaymentToken, sdkMinted, sdkPaid, inflight, result,
              released, lastCounter, upstream, requests, ui, agentRun>>

\* the driver is started: main() calls waitForAgents(), attempt = 0
main(driver) ==
  /\ health.pc = "idle"
  /\ health' = [health EXCEPT !.driver = driver, !.pc = "probeBuyer"]
  /\ HealthUnchanged

\* isAgentHealthy of the buyer's port returned
probeBuyer(healthy) ==
  /\ health.pc = "probeBuyer"
  /\ health' = [health EXCEPT !.pc = "probeSeller", !.buyerHealthy = healthy]
  /\ HealthUnchanged

\* mutant: the loop sleeps after the last attempt as well
delayAfter_every(attempt) == attempt < maxRetries

\* `if (attempt < maxRetries - 1)`: sleep before the next attempt
delayAfter(attempt) == attempt < maxRetries - 1

\* isAgentHealthy of the seller's port returned: the rest of the loop body
\* up to the next await or the return
probeSeller(healthy) ==
  /\ health.pc = "probeSeller"
  /\ health' =
       IF health.buyerHealthy /\ healthy
       THEN [health EXCEPT !.pc = "ready", !.sellerHealthy = healthy,
                           !.probes = @ + 1]
       ELSE IF delayAfter(health.attempt)
       THEN [health EXCEPT !.pc = "delay", !.sellerHealthy = healthy,
                           !.probes = @ + 1]
       ELSE [health EXCEPT !.pc = "notReady", !.sellerHealthy = healthy,
                           !.probes = @ + 1, !.attempt = @ + 1]
  /\ HealthUnchanged

\* the retryDelay timer fired: attempt++ and, the loop condition holding,
\* the next probe; otherwise waitForAgents returns false
delayElapsed ==
  /\ health.pc = "delay"
  /\ health' =
       [health EXCEPT !.attempt = @ + 1, !.delays = @ + 1,
                      !.buyerHealthy = FALSE, !.sellerHealthy = FALSE,
                      !.pc = IF health.attempt + 1 < maxRetries
                             THEN "probeBuyer" ELSE "notReady"]
  /\ HealthUnchanged

\* main() after waitForAgents returned: process.exit(1), or the first
\* message to the buyer agent
mainResumes ==
  /\ health.pc \in {"ready", "notReady"}
  /\ health' = IF health.pc = "notReady"
               THEN [health EXCEPT !.pc = "exited"]
               ELSE [health EXCEPT !.pc = "session", !.sent = @ + 1]
  /\ HealthUnchanged

HealthProgress ==
  \/ \E healthy \in BOOLEAN : probeBuyer(healthy)
  \/ \E healthy \in BOOLEAN : probeSeller(healthy)
  \/ delayElapsed
  \/ mainResumes

NextHealth == (\E driver \in Drivers : main(driver)) \/ HealthProgress

\* every probe ends (fetch answers or times out) and every timer fires
SpecHealth == Init /\ [][NextHealth]_vars /\ WF_vars(HealthProgress)

\* C30: waitForAgents makes at most 10 attempts; it returns true on the
\* first attempt at which both agents answer; it returns false after exactly
\* 10 attempts and 9 delays; the driver then exits without having sent a
\* message; and the driver, once started, always gets past waitForAgents.
C30_WaitForAgentsTerminates ==
  /\ [](health.probes <= 10)
  /\ [](health.pc \in {"ready", "session"} =>
          /\ health.buyerHealthy /\ health.sellerHealthy
          /\ health.probes = health.attempt + 1
          /\ health.delays = health.attempt)
  /\ [][(health.pc = "probeSeller" /\ health.buyerHealthy
         /\ health'.pc # "probeSeller" /\ health'.sellerHealthy) =>
          health'.pc = "ready"]_vars
  /\ [](health.pc \in {"notReady", "exited"} =>
          /\ health.probes = 10
          /\ health.delays = 9
          /\ health.sent = 0)
  /\ (health.pc # "idle") ~> (health.pc \in {"session", "exited"})

\* waitForAgents gave up after its last attempt and the driver exited
C30_Witness ==
  /\ health.pc = "exited"
  /\ health.probes = 10
  /\ health.buyerHealthy
  /\ ~health.sellerHealthy

====
